---- MODULE Spec2Model ----
(***************************************************************************)
(* The ticket lifecycle manager of src/tickets/models/ticket.py and the    *)
(* transcript of src/tickets/models/transcript.py.                         *)
(*                                                                         *)
(* TicketSystem.create_ticket and TicketSystem.close_ticket are coroutines *)
(* run by one cooperative event loop: a call runs without interruption     *)
(* from one await of the platform to the next.  Each call occupies a slot  *)
(* of `calls`; its pc names the await it is suspended at, and one action   *)
(* of the model is the code between two suspensions.  An await of a        *)
(* coroutine that itself never awaits the platform (Ticket.close) does not *)
(* suspend.                                                                *)
(*                                                                         *)
(* Every call of the platform (discord) either completes or raises.  The   *)
(* pydantic constructions TicketConfig(...) and TranscriptEntry(...) are   *)
(* modelled with both outcomes as well: as written, with pydantic v2,      *)
(* TicketConfig(...) at ticket.py:297 is handed the descriptor object for  *)
(* the str field ticket_type and needs created_at's default_factory, which *)
(* is a datetime and not a callable, and from_discord_message passes no    *)
(* `author`, so the raising outcome is the one these lines produce; the    *)
(* completing outcome is kept so that the lifecycle behind them is checked *)
(* as well.                                                                *)
(***************************************************************************)
EXTENDS Integers, Sequences, FiniteSets, TLC

\* ---------------------------------------------------------------- bounds
MaxTickets == 2      \* ticket ids that may be allocated
MaxCalls == 2        \* coroutines of the ticket system alive at once
MaxHandlers == 2     \* registered transcript handlers
MaxCloseCalls == 2   \* close_ticket calls that find their ticket

\* ------------------------------------------------------------ vocabulary
None == "None"              \* Python's None
OPEN == "open"              \* TicketStatus.OPEN
CLOSED == "closed"          \* TicketStatus.CLOSED
ARCHIVED == "archived"      \* TicketStatus.ARCHIVED
Stamp == "now"              \* a value of datetime.now()
Raised == "raised"          \* a call that ended by raising to its caller
DefaultCategory == 0        \* TicketSystem.default_category

Calls == 1..MaxCalls
Users == {123}
Handlers == {"db"}
GuildRoles == {10}          \* ids of the roles of the guild

\* The ticket types registrants supply (subclasses of TicketTypeConfig, with the
\* type_id that TicketTypeRegistry.register reads).
SupportType ==
    [type_id |-> "support", identifier |-> "support", channel_prefix |-> "sup",
     category_name |-> "Support", teams |-> <<10>>]
BillingType ==
    [type_id |-> "billing", identifier |-> "billing", channel_prefix |-> "bill",
     category_name |-> None, teams |-> <<99>>]
TicketTypes == {SupportType, BillingType}
TypeIds == {"support", "billing", "bogus"}

VARIABLES
    _types,                 \* TicketTypeRegistry._types: type_id -> descriptor
    _next_ticket_id,        \* TicketSystem._next_ticket_id
    tickets,                \* TicketSystem.tickets: keys in insertion order
    objs,                   \* the Ticket objects, by ticket_id
    _categories,            \* TicketSystem._categories: name -> category
    transcript_handlers,    \* TicketSystem.transcript_handlers
    guildCategories,        \* names of guild.categories; a category is its index
    channels,               \* text channels of the guild; a channel id is its index
    archive,                \* the number of embeds sent to the archive channel
    calls,                  \* the coroutines: position and locals
    allocated,              \* history: ids taken from _next_ticket_id, in order
    returned,               \* what the step just taken returned to a caller, if it did
    closedOk,               \* history: ids for which close_ticket returned True
    closeCalls              \* history: close_ticket calls that found their ticket

vars == <<_types, _next_ticket_id, tickets, objs, _categories, transcript_handlers,
          guildCategories, channels, archive, calls, allocated, returned, closedOk,
          closeCalls>>

\* ------------------------------------------------------------- helpers
Range(s) == {s[i] : i \in DOMAIN s}

\* dict.get / `in` on the active-tickets map
HasTicket(tid) == tid \in Range(tickets)

RECURSIVE Without(_, _)
Without(s, x) ==
    IF s = <<>> THEN <<>>
    ELSE IF Head(s) = x THEN Without(Tail(s), x)
    ELSE <<Head(s)>> \o Without(Tail(s), x)

\* f"{n:04d}"
Pad4(n) ==
    LET s == ToString(n)
    IN  IF Len(s) >= 4 THEN s ELSE SubSeq("0000", 1, 4 - Len(s)) \o s

\* f"{ticket_type.channel_prefix}-{ticket_id:04d}"
ChannelName(prefix, tid) == prefix \o "-" \o Pad4(tid)

\* The objects that key a permission overwrite
RoleObj(role_id) == "role:" \o ToString(role_id)
MemberObj(user_id) == "member:" \o ToString(user_id)

\* TicketTeam.get_role: the role of the guild with the team's role_id, or None
get_role(role_id) == IF role_id \in GuildRoles THEN RoleObj(role_id) ELSE None

\* TicketTeam.get_mention_string
get_mention_string(role_id) ==
    IF get_role(role_id) # None THEN "@" \o get_role(role_id) ELSE ""

\* TicketTypeConfig.get_channel_permissions: the subjects of the overwrites
get_channel_permissions(desc, creator) ==
    {"default_role", MemberObj(creator), "me"}
        \cup {get_role(desc.teams[i]) : i \in DOMAIN desc.teams}

\* TicketTypeConfig.on_ticket_created: the mentions it collects
Mentions(desc) ==
    {get_mention_string(desc.teams[i]) : i \in DOMAIN desc.teams} \ {""}

\* What a call gave its caller: a Ticket (by id), None, True, False, or a fault
Ret(kind, id) == [kind |-> kind, id |-> id]
NoRet == Ret("pending", 0)

\* A call slot: hi is the index of the handler being awaited, log the
\* save_transcript invocations the call has made
IdleCall ==
    [pc |-> "idle", op |-> None, tid |-> 0, type |-> None, creator |-> 0,
     category |-> DefaultCategory, hi |-> 0, log |-> <<>>]

\* The suspended calls fill the first slots, in the order they were made: a new
\* call takes the first slot that holds none, and a return closes the gap.
Free(c) ==
    /\ calls[c].pc = "idle"
    /\ \A d \in 1..(c - 1) : calls[d].pc # "idle"

Compact(cs) ==
    LET busy == SelectSeq(cs, LAMBDA r : r.pc # "idle")
    IN  [i \in Calls |-> IF i <= Len(busy) THEN busy[i] ELSE IdleCall]

\* The step returned nothing
NoReturn ==
    [op |-> None, tid |-> 0, resolved |-> FALSE, ret |-> NoRet, exc |-> None,
     saved |-> None]

\* ----------------------------------------------------------------- Init
Init ==
    /\ _types = <<>>
    /\ _next_ticket_id = 1
    /\ tickets = <<>>
    /\ objs = <<>>
    /\ _categories = <<>>
    /\ transcript_handlers = <<>>
    /\ guildCategories \in {<<>>, <<"Support">>}
    /\ channels = <<>>
    /\ archive = 0
    /\ calls = [c \in Calls |-> IdleCall]
    /\ allocated = <<>>
    /\ returned = NoReturn
    /\ closedOk = {}
    /\ closeCalls = 0

\* ------------------------------------------------------ registration
\* TicketSystem.register_ticket_type -> TicketTypeRegistry.register
register_ticket_type(t) ==
    /\ _types' = [k \in DOMAIN _types \cup {t.type_id} |->
                    IF k = t.type_id THEN t ELSE _types[k]]
    /\ returned' = NoReturn
    /\ UNCHANGED <<_next_ticket_id, tickets, objs, _categories, transcript_handlers,
                   guildCategories, channels, archive, calls, allocated, closedOk, closeCalls>>

\* TicketSystem.add_transcript_handler
add_transcript_handler(h) ==
    /\ Len(transcript_handlers) < MaxHandlers
    /\ transcript_handlers' = Append(transcript_handlers, h)
    /\ returned' = NoReturn
    /\ UNCHANGED <<_types, _next_ticket_id, tickets, objs, _categories,
                   guildCategories, channels, archive, calls, allocated, closedOk, closeCalls>>

\* ------------------------------------------------------- create_ticket
\* What TicketTypeRegistry.get gives for an unknown type_id (None)
NoType ==
    [type_id |-> None, identifier |-> None, channel_prefix |-> None,
     category_name |-> None, teams |-> <<>>]

\* A registry that falls back to a registered type when the id is unknown
RegistryGetFallback(type_id) ==
    IF type_id \in DOMAIN _types THEN _types[type_id]
    ELSE IF DOMAIN _types # {} THEN _types[CHOOSE k \in DOMAIN _types : TRUE]
    ELSE NoType

\* TicketTypeRegistry.get
RegistryGet(type_id) == IF type_id \in DOMAIN _types THEN _types[type_id] ELSE NoType

\* An id taken from the size of the active map instead of the counter
AllocateIdFromMap == Len(tickets) + 1

\* ticket_id = self._next_ticket_id
AllocateId == _next_ticket_id

\* self._next_ticket_id += 1
NextTicketId(n) == n + 1

\* `except Exception` of create_ticket: log, return None
CreateExcept == Ret("None", 0)

\* A close_ticket whose handler lets the exception through
CloseReraises == Ret(Raised, 0)

\* `except Exception` of close_ticket: log, return False
CloseExcept == Ret("False", 0)

\* The call in slot c returns r to its caller; e names what was raised inside it,
\* sv the outcome of the last save_transcript it awaited.
Returned(c, r, e, sv) ==
    /\ calls' = Compact([calls EXCEPT ![c] = IdleCall])
    /\ returned' = [op |-> calls[c].op, tid |-> calls[c].tid, resolved |-> TRUE,
                      ret |-> r, exc |-> e, saved |-> sv]

\* discord.utils.get(self.guild.categories, name=...): the first match, or 0
GuildCategory(name) ==
    IF \E i \in DOMAIN guildCategories : guildCategories[i] = name
    THEN CHOOSE i \in DOMAIN guildCategories :
            /\ guildCategories[i] = name
            /\ \A j \in 1..(i - 1) : guildCategories[j] # name
    ELSE 0

\* create_ticket from its call to the first await of the platform: the registry
\* lookup, the id allocation, TicketConfig(...), and _get_or_create_category up to
\* guild.create_category (or, when the category is at hand, up to
\* category.create_text_channel).
create_ticket(c, creator, type_id) ==
    /\ Free(c)
    /\ IF RegistryGet(type_id) = NoType
       THEN /\ returned' = [NoReturn EXCEPT !.op = "create", !.ret = Ret("None", 0)]
            /\ UNCHANGED <<calls, _next_ticket_id, allocated, _categories>>
       ELSE LET desc == RegistryGet(type_id)
                tid == AllocateId
                me == [IdleCall EXCEPT !.op = "create", !.creator = creator,
                                       !.type = desc.type_id, !.tid = tid]
                name == desc.category_name
            IN  /\ _next_ticket_id <= MaxTickets
                /\ _next_ticket_id' = NextTicketId(_next_ticket_id)
                /\ allocated' = Append(allocated, tid)
                /\ \/ \* TicketConfig(...) raises
                      /\ returned' =
                            [NoReturn EXCEPT !.op = "create", !.tid = tid,
                                             !.resolved = TRUE, !.ret = CreateExcept,
                                             !.exc = "config"]
                      /\ UNCHANGED <<calls, _categories>>
                   \/ \* TicketConfig(...) is built
                      /\ returned' = NoReturn
                      /\ IF name = None
                         THEN /\ calls' = [calls EXCEPT ![c] =
                                    [me EXCEPT !.pc = "cr_channel",
                                               !.category = DefaultCategory]]
                              /\ UNCHANGED _categories
                         ELSE IF name \in DOMAIN _categories
                         THEN /\ calls' = [calls EXCEPT ![c] =
                                    [me EXCEPT !.pc = "cr_channel",
                                               !.category = _categories[name]]]
                              /\ UNCHANGED _categories
                         ELSE IF GuildCategory(name) # 0
                         THEN /\ _categories' =
                                    [k \in DOMAIN _categories \cup {name} |->
                                        IF k = name THEN GuildCategory(name)
                                        ELSE _categories[k]]
                              /\ calls' = [calls EXCEPT ![c] =
                                    [me EXCEPT !.pc = "cr_channel",
                                               !.category = GuildCategory(name)]]
                         ELSE /\ calls' = [calls EXCEPT ![c] =
                                    [me EXCEPT !.pc = "cr_category"]]
                              /\ UNCHANGED _categories
    /\ UNCHANGED <<_types, tickets, objs, transcript_handlers, guildCategories,
                   channels, archive, closedOk, closeCalls>>

\* Ticket(config, channel, creator, ticket_type), with config.channel_id stamped
NewTicket(tid, ch, creator, desc) ==
    [config |-> [ticket_id |-> tid, channel_id |-> ch, creator_id |-> creator,
                 ticket_type |-> desc.identifier, status |-> OPEN,
                 closed_at |-> None],
     channel |-> ch,
     creator |-> creator,
     ticket_type |-> desc.type_id,
     transcript |-> [ticket_id |-> tid, channel_id |-> ch, creator_id |-> creator,
                     ticket_type |-> desc.identifier, closed_at |-> None,
                     entries |-> <<>>]]

\* self.tickets[ticket_id] = ticket
DictSet(d, tid) == IF tid \in Range(d) THEN d ELSE Append(d, tid)

\* A deletion that leaves the map as it is
DictDelNothing(d, tid) == d

\* del self.tickets[ticket_id]
DictDel(d, tid) == Without(d, tid)

\* create_ticket resumed from guild.create_category
CreateCategoryDone(c) ==
    /\ calls[c].pc = "cr_category"
    /\ LET name == _types[calls[c].type].category_name
       IN  \/ /\ Returned(c, CreateExcept, "platform", None)
              /\ UNCHANGED <<guildCategories, _categories>>
           \/ /\ guildCategories' = Append(guildCategories, name)
              /\ _categories' = [k \in DOMAIN _categories \cup {name} |->
                                    IF k = name THEN Len(guildCategories) + 1
                                    ELSE _categories[k]]
              /\ calls' = [calls EXCEPT ![c].pc = "cr_channel",
                                        ![c].category = Len(guildCategories) + 1]
              /\ returned' = NoReturn
    /\ UNCHANGED <<_types, _next_ticket_id, tickets, objs, transcript_handlers,
                   channels, archive, allocated, closedOk, closeCalls>>

\* create_ticket resumed from category.create_text_channel: the channel id is
\* stamped, the Ticket built and put into the map, and the creation embed sent.
CreateChannelDone(c) ==
    /\ calls[c].pc = "cr_channel"
    /\ \/ /\ Returned(c, CreateExcept, "platform", None)
          /\ UNCHANGED <<channels, objs, tickets>>
       \/ LET me == calls[c]
              desc == _types[me.type]
              ch == Len(channels) + 1
          IN  /\ channels' = Append(channels,
                    [name |-> ChannelName(desc.channel_prefix, me.tid),
                     category |-> me.category,
                     overwrites |-> get_channel_permissions(desc, me.creator),
                     msgs |-> 0])
              /\ objs' = [k \in DOMAIN objs \cup {me.tid} |->
                            IF k = me.tid THEN NewTicket(me.tid, ch, me.creator, desc)
                            ELSE objs[k]]
              /\ tickets' = DictSet(tickets, me.tid)
              /\ calls' = [calls EXCEPT ![c].pc = "cr_send"]
              /\ returned' = NoReturn
    /\ UNCHANGED <<_types, _next_ticket_id, _categories, transcript_handlers,
                   guildCategories, archive, allocated, closedOk,
                   closeCalls>>

\* create_ticket resumed from channel.send(embed=embed): on_ticket_created runs
\* up to its own channel.send, or to its end when it has nobody to mention.
CreateSendDone(c) ==
    /\ calls[c].pc = "cr_send"
    /\ LET me == calls[c]
           ch == objs[me.tid].channel
       IN  \/ /\ Returned(c, CreateExcept, "platform", None)
              /\ UNCHANGED channels
           \/ /\ channels' = [channels EXCEPT ![ch].msgs = @ + 1]
              /\ IF Mentions(_types[me.type]) # {}
                 THEN /\ calls' = [calls EXCEPT ![c].pc = "cr_hook"]
                      /\ returned' = NoReturn
                 ELSE Returned(c, Ret("Ticket", me.tid), None, None)
    /\ UNCHANGED <<_types, _next_ticket_id, tickets, objs, _categories,
                   transcript_handlers, guildCategories, archive, allocated, closedOk, closeCalls>>

\* create_ticket resumed from the channel.send of on_ticket_created
CreateHookDone(c) ==
    /\ calls[c].pc = "cr_hook"
    /\ LET me == calls[c]
           ch == objs[me.tid].channel
       IN  \/ /\ Returned(c, CreateExcept, "hook", None)
              /\ UNCHANGED channels
           \/ /\ channels' = [channels EXCEPT ![ch].msgs = @ + 1]
              /\ Returned(c, Ret("Ticket", me.tid), None, None)
    /\ UNCHANGED <<_types, _next_ticket_id, tickets, objs, _categories,
                   transcript_handlers, guildCategories, archive, allocated, closedOk, closeCalls>>

\* -------------------------------------------------------- close_ticket
\* TranscriptEntry.from_discord_message, for the message with id m
from_discord_message(m) == [message_id |-> m, timestamp |-> m]

\* channel.history(limit=None, oldest_first=True)
History(ch) == [m \in 1..channels[ch].msgs |-> m]

\* Ticket.collect_messages: Transcript.add_entry for the first k messages of the
\* history.  k is the whole history, or 0 when the fetch or the first conversion
\* raises, which collect_messages catches and logs.
Collect(t, hist, k) ==
    [t EXCEPT !.transcript.entries =
        @ \o [i \in 1..k |-> from_discord_message(hist[i])]]

\* A close that sets the status and forgets the timestamp
ConfigCloseStatusOnly(cfg) == [cfg EXCEPT !.status = CLOSED]

\* TicketConfig.close
ConfigClose(cfg) == [cfg EXCEPT !.status = CLOSED, !.closed_at = Stamp]

\* Transcript.close
TranscriptClose(tr) == [tr EXCEPT !.closed_at = Stamp]

\* A Ticket.close that closes the config and forgets the transcript
TicketCloseConfigOnly(t) == [t EXCEPT !.config = ConfigClose(@)]

\* Ticket.close
TicketClose(t) ==
    [t EXCEPT !.config = ConfigClose(@), !.transcript = TranscriptClose(@)]

\* A handler loop that also gives up when save_transcript returns False
HandlerAbortsOnFalse(out) == out # "true"

\* A loop that goes on to the next handler whatever the last one did
HandlerAbortsNever(out) == FALSE

\* Whether a save_transcript outcome ends the handler loop of close_ticket
HandlerAborts(out) == out = "raise"

\* A lookup that falls back to the oldest active ticket
TicketsGetOrFirst(tid) ==
    IF HasTicket(tid) THEN tid ELSE IF tickets # <<>> THEN tickets[1] ELSE 0

\* self.tickets.get(ticket_id): the Ticket (by id), or 0 for None
TicketsGet(tid) == IF HasTicket(tid) THEN tid ELSE 0

\* close_ticket from its call to the first await of the platform, the history
\* fetch of collect_messages; a miss in the map returns False at once.
close_ticket(c, tid) ==
    /\ Free(c)
    /\ IF TicketsGet(tid) = 0
       THEN /\ returned' = [NoReturn EXCEPT !.op = "close", !.ret = Ret("False", 0)]
            /\ UNCHANGED <<calls, closeCalls>>
       ELSE /\ closeCalls < MaxCloseCalls
            /\ closeCalls' = closeCalls + 1
            /\ calls' = [calls EXCEPT ![c] =
                    [IdleCall EXCEPT !.pc = "cl_history", !.op = "close",
                                     !.tid = TicketsGet(tid)]]
            /\ returned' = NoReturn
    /\ UNCHANGED <<_types, _next_ticket_id, tickets, objs, _categories,
                   transcript_handlers, guildCategories, channels, archive, allocated,
                   closedOk>>

\* close_ticket resumed from the history fetch: the entries are added, the ticket
\* is closed, the closure embed is built and archive.send awaited.
CloseHistoryDone(c) ==
    /\ calls[c].pc = "cl_history"
    /\ LET tid == calls[c].tid
           hist == History(objs[tid].channel)
       IN  \E k \in {0, Len(hist)} :
              objs' = [objs EXCEPT ![tid] = TicketClose(Collect(@, hist, k))]
    /\ calls' = [calls EXCEPT ![c].pc = "cl_archive"]
    /\ returned' = NoReturn
    /\ UNCHANGED <<_types, _next_ticket_id, tickets, _categories, transcript_handlers,
                   guildCategories, channels, archive, allocated, closedOk, closeCalls>>

\* The save_transcript invocations of one close_ticket call so far, oldest
\* first, with the outcome sv of the latest one entered: it returned (its value
\* is dropped) or it raised.
Settled(log, sv) ==
    IF Len(log) = 0 THEN log
    ELSE [log EXCEPT ![Len(log)].out = IF sv = "raise" THEN "raised" ELSE "returned"]

\* The handler loop of close_ticket from handler i on: either save_transcript of
\* handler i is invoked and awaited, or the loop is over, the ticket is deleted
\* from the map and True returned (a key already gone raises KeyError).
RunHandlers(c, i, sv) ==
    LET tid == calls[c].tid
    IN  IF i <= Len(transcript_handlers)
        THEN /\ calls' = [calls EXCEPT
                    ![c].pc = "cl_handler", ![c].hi = i,
                    ![c].log = Append(Settled(@, sv), [h |-> i, out |-> "pending"])]
             /\ UNCHANGED <<tickets, closedOk>>
             /\ returned' = NoReturn
        ELSE /\ IF HasTicket(tid)
                THEN /\ tickets' = DictDel(tickets, tid)
                     /\ closedOk' = closedOk \cup {tid}
                     /\ Returned(c, Ret("True", 0), None, sv)
                ELSE /\ Returned(c, CloseExcept, "KeyError", sv)
                     /\ UNCHANGED <<tickets, closedOk>>

\* close_ticket resumed from archive.send
CloseArchiveDone(c) ==
    /\ calls[c].pc = "cl_archive"
    /\ \/ /\ Returned(c, CloseExcept, "platform", None)
          /\ UNCHANGED <<archive, tickets, closedOk>>
       \/ /\ archive' = archive + 1
          /\ RunHandlers(c, 1, None)
    /\ UNCHANGED <<_types, _next_ticket_id, objs, _categories, transcript_handlers,
                   guildCategories, channels, allocated, closeCalls>>

\* close_ticket resumed from handler.save_transcript, which returned True or
\* False (the value is dropped) or raised
CloseHandlerDone(c) ==
    /\ calls[c].pc = "cl_handler"
    /\ \E out \in {"true", "false", "raise"} :
          IF HandlerAborts(out)
          THEN /\ Returned(c, CloseExcept, IF out = "raise" THEN "handler" ELSE None,
                           out)
               /\ UNCHANGED <<tickets, closedOk>>
          ELSE RunHandlers(c, calls[c].hi + 1, out)
    /\ UNCHANGED <<_types, _next_ticket_id, objs, _categories, transcript_handlers,
                   guildCategories, channels, archive, allocated, closeCalls>>

\* ------------------------------------------------------------- queries
\* TicketSystem.get_ticket_by_channel: the first match in map order, or 0
get_ticket_by_channel(channel_id) ==
    IF \E i \in DOMAIN tickets : objs[tickets[i]].channel = channel_id
    THEN tickets[CHOOSE i \in DOMAIN tickets :
                    /\ objs[tickets[i]].channel = channel_id
                    /\ \A j \in 1..(i - 1) : objs[tickets[j]].channel # channel_id]
    ELSE 0

\* TicketSystem.get_tickets_by_type
get_tickets_by_type(identifier) ==
    SelectSeq(tickets, LAMBDA t : _types[objs[t].ticket_type].identifier = identifier)

\* TicketSystem.get_user_tickets
get_user_tickets(user_id) ==
    SelectSeq(tickets, LAMBDA t : objs[t].creator = user_id)

\* ---------------------------------------------------------------- Next
Next ==
    \/ \E t \in TicketTypes : register_ticket_type(t)
    \/ \E h \in Handlers : add_transcript_handler(h)
    \/ \E c \in Calls, u \in Users, t \in TypeIds : create_ticket(c, u, t)
    \/ \E c \in Calls : CreateCategoryDone(c)
    \/ \E c \in Calls : CreateChannelDone(c)
    \/ \E c \in Calls : CreateSendDone(c)
    \/ \E c \in Calls : CreateHookDone(c)
    \/ \E c \in Calls, tid \in 1..(MaxTickets + 1) : close_ticket(c, tid)
    \/ \E c \in Calls : CloseHistoryDone(c)
    \/ \E c \in Calls : CloseArchiveDone(c)
    \/ \E c \in Calls : CloseHandlerDone(c)

Spec == Init /\ [][Next]_vars

TypeOK ==
    /\ _next_ticket_id \in 1..(MaxTickets + 1)
    /\ Range(tickets) \subseteq DOMAIN objs
    /\ \A c \in Calls : calls[c].pc \in
            {"idle", "cr_category", "cr_channel", "cr_send", "cr_hook",
             "cl_history", "cl_archive", "cl_handler"}

\* ==================================================================
\* Properties
\* ==================================================================

\* C1: the ticket ids allocated by create_ticket are strictly increasing in
\* allocation order, so none is allocated twice, whatever became of the
\* creations and tickets that took the earlier ones.
C1_IdsStrictlyIncreasing ==
    \A i, j \in DOMAIN allocated : i < j => allocated[i] < allocated[j]

\* An id was consumed by a creation that failed, and a later one was allocated.
C1_Witness ==
    /\ Len(allocated) >= 2
    /\ allocated[1] \notin DOMAIN objs
    /\ closedOk # {}

\* C2 (as claimed): a create_ticket whose type resolves and whose platform calls
\* all succeed returns a Ticket with the id it allocated (1 for the first), an
\* OPEN status, the channel name prefix-000N, present in the active map.
C2_CreateReturnsTicket ==
    (/\ returned.op = "create"
     /\ returned.resolved
     /\ returned.exc \notin {"platform", "hook"})
    => /\ returned.ret.kind = "Ticket"
       /\ returned.ret.id = returned.tid
       /\ (Len(allocated) = 1 => returned.ret.id = 1)
       /\ HasTicket(returned.tid)
       /\ objs[returned.tid].config.status = OPEN
       /\ channels[objs[returned.tid].channel].name =
            ChannelName(_types[objs[returned.tid].ticket_type].channel_prefix,
                        returned.tid)

\* C3 (as claimed): a close_ticket of an active ticket that got to its handlers
\* has removed the ticket when it returns, whatever the handlers did.
C3_RemovedWhateverHandlersDo ==
    (/\ returned.op = "close"
     /\ returned.resolved
     /\ returned.exc # "platform")
    => ~HasTicket(returned.tid)

\* C3 (amended): a close_ticket of an active ticket that got to its handlers has
\* removed the ticket when it returns provided every save_transcript returned
\* (True or False); when one raises, close_ticket returns False and leaves the
\* map as it was.
C3_RemovedUnlessHandlerRaises ==
    /\ [](/\ (/\ returned.op = "close"
              /\ returned.resolved
              /\ returned.exc \notin {"platform", "handler"})
             => ~HasTicket(returned.tid)
          /\ returned.exc = "handler" => returned.ret.kind = "False")
    /\ [][returned'.exc = "handler" => tickets' = tickets]_vars

\* A handler returned False and the ticket was removed all the same.
C3_Witness ==
    /\ returned.op = "close"
    /\ returned.saved = "false"
    /\ returned.ret.kind = "True"
    /\ ~HasTicket(returned.tid)

\* The step in which the call in slot c invokes a handler's save_transcript
InvokesHandler(c) ==
    /\ calls'[c].pc = "cl_handler"
    /\ \/ calls[c].pc = "cl_archive"
       \/ calls[c].pc = "cl_handler" /\ calls'[c].hi = calls[c].hi + 1

\* The entries of a transcript that holds each of n messages once, oldest first
FullTranscript(n) == [i \in 1..n |-> from_discord_message(i)]

\* C4 (as claimed): the transcript close_ticket passes to save_transcript holds the
\* channel's messages in chronological order, each exactly once.
C4_SavedTranscriptIsHistory ==
    [][\A c \in Calls :
          InvokesHandler(c) =>
             objs'[calls'[c].tid].transcript.entries =
                FullTranscript(channels'[objs'[calls'[c].tid].channel].msgs)]_vars

\* C5: while a transcript handler runs for a ticket, the transcript's closed_at is
\* set and the ticket's status is CLOSED: both were set before the first
\* save_transcript was invoked.
C5_ClosedBeforeHandlers ==
    \A c \in Calls :
        calls[c].pc = "cl_handler" =>
            /\ objs[calls[c].tid].transcript.closed_at # None
            /\ objs[calls[c].tid].config.status = CLOSED

\* The first handler of a close has just been invoked.
C5_Witness ==
    \E c \in Calls : calls[c].pc = "cl_handler" /\ calls[c].hi = 1

\* C6: create_ticket with a type identifier that is not registered returns no
\* ticket and leaves the id counter, the active map, the category cache, the
\* guild's categories and channels and every suspended call as they were.
C6_UnknownTypeNoSideEffects ==
    [][\A c \in Calls, u \in Users, t \in TypeIds :
          (t \notin DOMAIN _types /\ create_ticket(c, u, t)) =>
             /\ returned'.op = "create"
             /\ returned'.ret.kind = "None"
             /\ UNCHANGED <<_next_ticket_id, allocated, tickets, objs, _categories,
                            guildCategories, channels, calls>>]_vars

\* create_ticket has just returned None for an unknown type while another type
\* is registered.
C6_Witness ==
    /\ returned.op = "create"
    /\ ~returned.resolved
    /\ returned.ret.kind = "None"
    /\ _types # <<>>

\* C7: close_ticket with an id that is no key of the active map returns False,
\* leaves the map as it was, collects no messages, sends nothing to the archive
\* and starts no call of a handler.
C7_UnknownTicketNoEffects ==
    [][\A c \in Calls, tid \in 1..(MaxTickets + 1) :
          (tid \notin Range(tickets) /\ close_ticket(c, tid)) =>
             /\ returned'.op = "close"
             /\ returned'.ret.kind = "False"
             /\ UNCHANGED <<tickets, objs, archive, channels, calls, closedOk>>]_vars

\* close_ticket has just returned False for an unknown id while a ticket is active.
C7_Witness ==
    /\ returned.op = "close"
    /\ ~returned.resolved
    /\ returned.ret.kind = "False"
    /\ tickets # <<>>

\* C8: a ticket for which close_ticket returned True is in no result of
\* get_ticket_by_channel, get_tickets_by_type and get_user_tickets, then and ever
\* after.
C8_ClosedTicketAbsentFromQueries ==
    \A t \in closedOk :
        /\ get_ticket_by_channel(objs[t].channel) # t
        /\ t \notin Range(get_tickets_by_type(objs[t].config.ticket_type))
        /\ t \notin Range(get_user_tickets(objs[t].creator))

\* A ticket was closed with success while another of its type and creator is active.
C8_Witness ==
    \E t \in closedOk :
        /\ get_tickets_by_type(objs[t].config.ticket_type) # <<>>
        /\ get_user_tickets(objs[t].creator) # <<>>

C10_ClosedAtIffNotOpen ==
    \A t \in DOMAIN objs :
        (objs[t].config.closed_at # None) <=> (objs[t].config.status # OPEN)

\* One ticket is open with closed_at unset while another was closed.
C10_Witness ==
    \E t, u \in DOMAIN objs :
        /\ objs[t].config.status = OPEN /\ objs[t].config.closed_at = None
        /\ objs[u].config.status = CLOSED /\ objs[u].config.closed_at = Stamp

\* C11: category creation is idempotent by name under every interleaving of
\* create_ticket calls: at most one guild.create_category request is ever
\* outstanding for a name, none is outstanding while the guild has a category of
\* that name, no name appears twice among the guild's categories, and the
\* channels of tickets of one type are all in the same category.
C11_CategoryCreatedOncePerName ==
    /\ \A c, d \in Calls :
          /\ calls[c].pc = "cr_category" /\ calls[d].pc = "cr_category"
          /\ _types[calls[c].type].category_name = _types[calls[d].type].category_name
          => c = d
    /\ \A c \in Calls :
          calls[c].pc = "cr_category" =>
              GuildCategory(_types[calls[c].type].category_name) = 0
    /\ \A i, j \in DOMAIN guildCategories :
          guildCategories[i] = guildCategories[j] => i = j
    /\ \A t, u \in DOMAIN objs :
          objs[t].ticket_type = objs[u].ticket_type =>
              channels[objs[t].channel].category = channels[objs[u].channel].category

\* C12: the overwrites of a ticket's channel have as subjects exactly the default
\* role, the creator, the bot's member and the roles of the teams of the type
\* that resolve in the guild; a team whose role does not resolve adds no entry.
C12_OverwritesSkipUnresolvedRoles ==
    \A t \in DOMAIN objs :
        LET desc == CHOOSE d \in TicketTypes : d.type_id = objs[t].ticket_type
        IN  channels[objs[t].channel].overwrites =
                {"default_role", MemberObj(objs[t].creator), "me"}
                    \cup {RoleObj(desc.teams[i]) :
                            i \in {j \in DOMAIN desc.teams : desc.teams[j] \in GuildRoles}}

\* C13: close_ticket invokes the transcript handlers one at a time in
\* registration order: the k-th save_transcript a call starts is that of the
\* k-th handler of the list, it is started only when every earlier one has
\* returned, and after a save_transcript that raised none is started.
C13_HandlersInOrderUntilRaise ==
    \A c \in Calls :
        LET log == calls[c].log
        IN  /\ Len(log) <= Len(transcript_handlers)
            /\ \A i \in DOMAIN log :
                  /\ log[i].h = i
                  /\ log[i].out = (IF i < Len(log) THEN "returned" ELSE "pending")

\* The second of two handlers is running after the first returned.
C13_Witness ==
    \E c \in Calls :
        /\ calls[c].pc = "cl_handler"
        /\ Len(transcript_handlers) = 2
        /\ calls[c].log = <<[h |-> 1, out |-> "returned"], [h |-> 2, out |-> "pending"]>>

\* C14: of the close_ticket calls that overlap on one ticket id, no two invoke
\* the save_transcript of the same handler, and at most one returns True.
C14_ConcurrentCloseSavesOnce ==
    /\ [](\A c, d \in Calls :
            (/\ c # d
             /\ calls[c].op = "close" /\ calls[d].op = "close"
             /\ calls[c].tid = calls[d].tid)
            => \A i \in DOMAIN calls[c].log, j \in DOMAIN calls[d].log :
                  calls[c].log[i].h # calls[d].log[j].h)
    /\ [][(returned'.op = "close" /\ returned'.ret.kind = "True")
              => returned'.tid \notin closedOk]_vars

\* C15: a create_ticket that has just returned None for the id it allocated
\* leaves no ticket of that id in the active map.
C15_FailedCreateRegistersNothing ==
    (returned.op = "create" /\ returned.resolved /\ returned.ret.kind = "None")
        => ~HasTicket(returned.tid)

====
